---- MODULE Spec2Model ----
(***************************************************************************)
(* A model of the Pagurl plugin (src/main.ts): the command callback that   *)
(* turns a Markdown link, or a plain selection, into a note of the vault   *)
(* and rewrites the document to point at it. src/unnamed/part_000 is an    *)
(* earlier revision of the same class; the model follows src/main.ts.      *)
(*                                                                         *)
(* Text is a sequence of one-character strings, so that the regular        *)
(* expression, String.prototype.replace and trim are computed character by *)
(* character, as the JavaScript engine computes them.                      *)
(***************************************************************************)
EXTENDS Integers, Sequences, FiniteSets, TLC

\* ------------------------------------------------------------------ bounds

\* How many command invocations one behaviour holds.
MaxInvocations == 2

\* ------------------------------------------------------------ text helpers

\* The characters \s matches, among those the model's texts hold.
IsSpace(c) == c \in {" ", "\t", "\n"}

\* toLowerCase on the letters the model's texts hold in upper case (the i flag
\* of mdLinkRegex, and the host of a parsed URL).
Lower(c) ==
    CASE c = "H" -> "h"
      [] c = "T" -> "t"
      [] c = "P" -> "p"
      [] c = "S" -> "s"
      [] c = "X" -> "x"
      [] c = "Y" -> "y"
      [] OTHER -> c

LowerAll(s) == [i \in 1..Len(s) |-> Lower(s[i])]

\* The first index >= i of s that holds no white space (Len(s)+1 when none).
RECURSIVE SkipSpace(_, _)
SkipSpace(s, i) ==
    IF i > Len(s) THEN Len(s) + 1
    ELSE IF IsSpace(s[i]) THEN SkipSpace(s, i + 1)
    ELSE i

\* The last index <= i of s that holds no white space (0 when none).
RECURSIVE SkipSpaceBack(_, _)
SkipSpaceBack(s, i) ==
    IF i < 1 THEN 0
    ELSE IF IsSpace(s[i]) THEN SkipSpaceBack(s, i - 1)
    ELSE i

\* String.prototype.trim
trim(s) == SubSeq(s, SkipSpace(s, 1), SkipSpaceBack(s, Len(s)))

\* Whether p occurs in s at index i.
OccursAt(s, p, i) ==
    /\ i >= 1
    /\ i + Len(p) - 1 <= Len(s)
    /\ \A k \in 1..Len(p) : s[i + k - 1] = p[k]

\* String.prototype.indexOf, one-based: the first index where p occurs in s,
\* 0 when it does not.
IndexOf(s, p) ==
    LET hits == {i \in 1..(Len(s) + 1) : OccursAt(s, p, i)}
    IN  IF hits = {} THEN 0 ELSE CHOOSE i \in hits : \A j \in hits : i <= j

\* The first index >= i of s that holds character c, 0 when none.
RECURSIVE FirstChar(_, _, _)
FirstChar(s, c, i) ==
    IF i > Len(s) THEN 0
    ELSE IF s[i] = c THEN i
    ELSE FirstChar(s, c, i + 1)

\* GetSubstitution of ECMAScript for a pattern without capture groups: in the
\* replacement text, $$ is a dollar, $& the matched text, $` the text before
\* the match and $' the text after it; any other $ stands for itself.
RECURSIVE Substitution(_, _, _, _, _)
Substitution(repl, i, matched, before, after) ==
    IF i > Len(repl) THEN <<>>
    ELSE IF repl[i] = "$" /\ i < Len(repl) /\ repl[i + 1] \in {"$", "&", "`", "'"}
    THEN (CASE repl[i + 1] = "$" -> <<"$">>
            [] repl[i + 1] = "&" -> matched
            [] repl[i + 1] = "`" -> before
            [] repl[i + 1] = "'" -> after)
         \o Substitution(repl, i + 2, matched, before, after)
    ELSE <<repl[i]>> \o Substitution(repl, i + 1, matched, before, after)

\* content.replace(pattern, repl) with a string pattern: the first occurrence
\* only, the replacement text expanded by GetSubstitution.
StringReplace(content, pattern, repl) ==
    LET at == IndexOf(content, pattern)
    IN  IF at = 0 THEN content
        ELSE LET before == SubSeq(content, 1, at - 1)
                 after == SubSeq(content, at + Len(pattern), Len(content))
             IN  before \o Substitution(repl, 1, pattern, before, after) \o after

\* text.replace(/token/g, repl) for a regular expression that is the literal
\* token: every occurrence from left to right, none overlapping, each
\* replacement expanded by GetSubstitution against the text being scanned.
RECURSIVE RegexReplaceAll(_, _, _, _)
RegexReplaceAll(text, token, repl, i) ==
    IF i > Len(text) THEN <<>>
    ELSE IF OccursAt(text, token, i)
    THEN Substitution(repl, 1, token, SubSeq(text, 1, i - 1),
                      SubSeq(text, i + Len(token), Len(text)))
         \o RegexReplaceAll(text, token, repl, i + Len(token))
    ELSE <<text[i]>> \o RegexReplaceAll(text, token, repl, i + 1)

\* ------------------------------------------------------- findMarkdownLink

\* The result of a failed match, and of any absent value.
Null == [null |-> TRUE]

\* https?:\/\/ at index p, case-insensitive: the index after the two slashes,
\* 0 when the scheme does not match.
SchemeEnd(text, p) ==
    LET low == LowerAll(text)
    IN  IF OccursAt(low, <<"h", "t", "t", "p", "s", ":", "/", "/">>, p) THEN p + 8
        ELSE IF OccursAt(low, <<"h", "t", "t", "p", ":", "/", "/">>, p) THEN p + 7
        ELSE 0

\* The last index of the longest run of [^\s>] that starts at index i
\* (i - 1 when the run is empty).
RECURSIVE RunEnd(_, _)
RunEnd(text, i) ==
    IF i > Len(text) \/ IsSpace(text[i]) \/ text[i] = ">" THEN i - 1
    ELSE RunEnd(text, i + 1)

\* >?\s*\) after a url that ends at index k, where e is the end of the
\* longest run: the index of the closing parenthesis, 0 when there is none.
\* Inside the run (k < e) the next character is neither > nor white space,
\* so it has to be the parenthesis itself.
CloseAfter(text, k, e) ==
    IF k < e THEN (IF text[k + 1] = ")" THEN k + 1 ELSE 0)
    ELSE LET q == IF k + 1 <= Len(text) /\ text[k + 1] = ">" THEN k + 2 ELSE k + 1
             r == SkipSpace(text, q)
         IN  IF r <= Len(text) /\ text[r] = ")" THEN r ELSE 0

\* mdLinkRegex anchored at index i, which holds "[": the alias runs to the
\* first "]", the url is the longest one (the + is greedy) after which the
\* rest of the expression still matches.
MatchAt(text, i) ==
    LET j == FirstChar(text, "]", i + 1)
    IN  IF j = 0 \/ j = i + 1 \/ j + 1 > Len(text) \/ text[j + 1] # "(" THEN Null
        ELSE LET p1 == SkipSpace(text, j + 2)
                 p2 == IF p1 <= Len(text) /\ text[p1] = "<" THEN p1 + 1 ELSE p1
                 u == SchemeEnd(text, p2)
                 e == IF u = 0 THEN 0 ELSE RunEnd(text, u)
                 ends == IF u = 0 THEN {}
                         ELSE {k \in u..e : CloseAfter(text, k, e) # 0}
             IN  IF ends = {} THEN Null
                 ELSE LET k == CHOOSE x \in ends : \A y \in ends : y <= x
                      IN  [fullMatch |-> SubSeq(text, i, CloseAfter(text, k, e)),
                           alias |-> trim(SubSeq(text, i + 1, j - 1)),
                           url |-> trim(SubSeq(text, p2, k))]

\* text.match(mdLinkRegex): the leftmost match.
findMarkdownLink(text) ==
    LET starts == {i \in 1..Len(text) : text[i] = "[" /\ MatchAt(text, i) # Null}
    IN  IF starts = {} THEN Null
        ELSE MatchAt(text, CHOOSE i \in starts : \A j \in starts : i <= j)

\* ---------------------------------------------------------- name, content

\* The characters of /[\/\\#%&\{\}\|<>*?$!'":@]/
Unsafe == {"/", "\\", "#", "%", "&", "{", "}", "|", "<", ">", "*", "?", "$",
           "!", "'", "\"", ":", "@"}

\* sanitizeName with the colon missing from the character class.
sanitizeNameWithoutColon(name) ==
    [i \in 1..Len(name) |->
        IF name[i] \in Unsafe \ {":"} THEN "-" ELSE name[i]]

sanitizeName(name) ==
    [i \in 1..Len(name) |-> IF name[i] \in Unsafe THEN "-" ELSE name[i]]

\* The host of an http(s) url as new URL(url) reads it: what lies between
\* the scheme's slashes and the first of / ? # \, in lower case.
URLHost(url) ==
    LET u == SchemeEnd(url, 1)
        stops == {i \in u..Len(url) : url[i] \in {"/", "?", "#", "\\"}}
        stop == IF stops = {} THEN Len(url) + 1
                ELSE CHOOSE i \in stops : \A j \in stops : i <= j
    IN  IF u = 0 THEN <<>> ELSE LowerAll(SubSeq(url, u, stop - 1))

\* Whether new URL(url) returns instead of throwing: the url has a scheme
\* and its host is neither empty nor holds a forbidden host code point.
URLParses(url) ==
    /\ SchemeEnd(url, 1) # 0
    /\ URLHost(url) # <<>>
    /\ \A i \in 1..Len(URLHost(url)) :
          URLHost(url)[i] \notin {"[", "]", "<", ">", "^", "|", "%", " "}

generateName(link, nameStrategy, date) ==
    LET sanitizedAlias == sanitizeName(link.alias)
    IN  IF link.url = <<>> THEN sanitizedAlias
        ELSE IF nameStrategy = "domain-date"
        THEN (IF URLParses(link.url) THEN URLHost(link.url) \o <<"-">> \o date
              ELSE sanitizedAlias)
        ELSE sanitizedAlias

AliasToken == <<"{", "{", "a", "l", "i", "a", "s", "}", "}">>
UrlToken == <<"{", "{", "u", "r", "l", "}", "}">>

Dashes == <<"-", "-", "-", "\n">>
UrlKey == <<"u", "r", "l", ":", " ", "\"">>
UrlKeyEnd == <<"\"", "\n">>
AliasesKey == <<"a", "l", "i", "a", "s", "e", "s", ":", "\n", " ", " ", "-", " ">>

generateContent(link, template) ==
    LET frontmatter ==
            Dashes
            \o (IF link.url # <<>> THEN UrlKey \o link.url \o UrlKeyEnd ELSE <<>>)
            \o AliasesKey \o link.alias \o <<"\n">> \o Dashes
        content ==
            RegexReplaceAll(RegexReplaceAll(template, AliasToken, link.alias, 1),
                            UrlToken, link.url, 1)
    IN  frontmatter \o content

\* The wiki link replaceMarkdownLink builds; an empty alias is falsy.
newLink(name, alias) ==
    <<"[", "[">> \o name \o <<"|">>
    \o (IF alias # <<>> THEN alias ELSE name) \o <<"]", "]">>

\* ------------------------------------------------------------------ inputs

\* settings.folders as loadSettings finds it. A folder may be named like the
\* fixed command: the settings tab takes any text.
FolderLists == {<<"F", "G">>, <<"F", "current">>}

DefaultTemplate == <<>>
BodyTemplate ==
    <<"{", "{", "a", "l", "i", "a", "s", "}", "}", ":", " ",
      "{", "{", "u", "r", "l", "}", "}", "\n",
      "{", "{", "a", "l", "i", "a", "s", "}", "}">>
Templates == {DefaultTemplate, BodyTemplate}

NameStrategies == {"title", "domain-date"}

\* moment().format("YYYY-MM-DD")
Dates == {<<"2", "0", "2", "6", "-", "1", "1", "-", "0", "2">>}

\* Two links to one url with different aliases.
DocTwoLinks ==
    <<"[", "a", "]", "(", "h", "t", "t", "p", ":", "/", "/", "x", ")", "\n",
      "[", "b", "]", "(", "h", "t", "t", "p", ":", "/", "/", "x", ")">>

\* An upper-case scheme in angle brackets with an unsafe alias, a line of
\* plain text with spaces around it, a line of spaces.
DocAngle ==
    <<"[", "A", ":", "b", "]", "(", "<", "H", "T", "T", "P", "S", ":", "/", "/",
      "X", "/", "p", ">", " ", ")", "\n",
      " ", "b", " ", "c", " ", "\n",
      " ", " ">>

\* Aliases and a url that hold replacement patterns of String.replace.
DocDollar ==
    <<"[", "$", "&", "]", "(", "h", "t", "t", "p", ":", "/", "/", "y", ")", "\n",
      "[", "c", "$", "$", "]", "(", "h", "t", "t", "p", ":", "/", "/", "y", "/",
      "$", "'", ")">>

\* An alias that is a template token, and the same link twice on one line
\* with a url new URL() rejects.
DocToken ==
    <<"[", "{", "{", "u", "r", "l", "}", "}", "]", "(", "h", "t", "t", "p", ":",
      "/", "/", "x", ")", "\n",
      "x", " ", "[", "a", "]", "(", "h", "t", "t", "p", ":", "/", "/", "[", ")",
      " ", "[", "a", "]", "(", "h", "t", "t", "p", ":", "/", "/", "[", ")">>

\* An alias of white space only, and a line without a link.
DocBlank ==
    <<"[", " ", "]", "(", "h", "t", "t", "p", ":", "/", "/", "x", ")", "\n",
      "p", "l", "a", "i", "n">>

Docs == {DocTwoLinks, DocAngle, DocDollar, DocToken, DocBlank}

UrlX == <<"h", "t", "t", "p", ":", "/", "/", "x">>
UrlUpperX == <<"h", "t", "t", "p", ":", "/", "/", "X">>

\* A note of the vault: a Markdown file with its parent folder's path, its
\* basename, its front matter as the metadata cache holds it (Null when the
\* file has none) and its text.
Note(folder, basename, frontmatter, content) ==
    [folder |-> folder, basename |-> basename, frontmatter |-> frontmatter,
     content |-> content]

\* The vaults an invocation may start from: empty; notes whose url differs
\* from the link's by case, is the empty string, is missing, or lies in
\* another folder, one of them under the name a link's alias asks for; two
\* notes of one folder with the same url.
Vaults ==
    { {},
      { Note("G", <<"g", "1">>, [url |-> UrlX], <<>>),
        Note("F", <<"f", "0">>, [url |-> <<>>], <<>>),
        Note("F", <<"b">>, Null, <<>>),
        Note("F", <<"f", "2">>, [url |-> UrlUpperX], <<>>),
        Note("F", <<"f", "3">>, [tags |-> <<>>], <<>>) },
      { Note("F", <<"p">>, [url |-> UrlX], <<>>),
        Note("F", <<"q">>, [url |-> UrlX], <<>>) } }

\* ------------------------------------------------------------------- state

VARIABLES
    settings,      \* PagurlSettings
    commands,      \* the names of the commands onload registered
    activeFile,    \* workspace.getActiveFile(): Null, or the file's parent path
    today,         \* the current date
    vault,         \* the Markdown files of the vault
    value,         \* editor.getValue()
    cursor,        \* editor.getCursor(): [line, ch], both from 0
    selection,     \* editor.getSelection()
    pc,            \* where the callback stands
    command,       \* the command that was invoked
    folder,        \* the callback's parameter folder
    link,          \* the callback's local link
    existingFile,  \* the callback's local existingFile
    name,          \* the callback's local name
    notices,       \* the notices the invocation has shown
    uncaught,      \* the messages of the errors that left the callback
    invocations    \* how many invocations have started

vars == <<settings, commands, activeFile, today, vault, value, cursor, selection,
          pc, command, folder, link, existingFile, name, notices, uncaught,
          invocations>>

env == <<commands, activeFile, today>>
editor == <<value, cursor, selection>>
locals == <<command, folder, link, existingFile, name>>

\* ------------------------------------------------------------------ editor

NewLines(text) == {i \in 1..Len(text) : text[i] = "\n"}

lineCount(text) == Cardinality(NewLines(text)) + 1

\* The index of the n-th line break of text, n from 1.
LineBreak(text, n) ==
    CHOOSE i \in NewLines(text) : Cardinality({j \in NewLines(text) : j <= i}) = n

\* editor.getLine(n), n from 0; the empty text past the last line.
getLine(text, n) ==
    IF n >= lineCount(text) THEN <<>>
    ELSE LET from == IF n = 0 THEN 1 ELSE LineBreak(text, n) + 1
             to == IF n = lineCount(text) - 1 THEN Len(text)
                   ELSE LineBreak(text, n + 1) - 1
         IN  SubSeq(text, from, to)

\* ------------------------------------------------------------------- Init

\* The state once onload has returned, for documents, templates, vaults and
\* parent paths of the active file of the given sets ("/" is the path of the
\* vault's root folder): the settings are loaded, one command is registered
\* per folder of the settings and one named current.
Loaded(docs, templates, vaults, parents) ==
    /\ settings \in [template : templates, vaultWideNoDuplicate : BOOLEAN,
                     nameStrategy : NameStrategies, folders : FolderLists]
    /\ commands = {settings.folders[i] : i \in 1..Len(settings.folders)}
                     \cup {"current"}
    /\ activeFile \in {Null} \cup [parent : parents]
    /\ today \in Dates
    /\ vault \in vaults
    /\ value \in docs
    /\ cursor = [line |-> 0, ch |-> 0]
    /\ selection = <<>>
    /\ pc = "idle"
    /\ command = Null
    /\ folder = Null
    /\ link = Null
    /\ existingFile = Null
    /\ name = Null
    /\ notices = <<>>
    /\ uncaught = {}
    /\ invocations = 0

\* Sequences of invocations on the documents that hold several links.
Init == Loaded({DocTwoLinks, DocBlank}, {BodyTemplate}, Vaults, {"G"})

\* Every document, template and vault, for the claims about one invocation.
InitOne == Loaded(Docs, Templates, Vaults, {"G", "/"})

\* ------------------------------------------------------------- the user

\* The user puts the caret at the start of line n.
PlaceCaret(n) ==
    /\ pc = "idle"
    /\ n \in 0..(lineCount(value) - 1)
    /\ cursor' = [line |-> n, ch |-> 0]
    /\ selection' = <<>>
    /\ UNCHANGED <<settings, env, vault, value, pc, locals, notices, uncaught,
                   invocations>>

\* The user selects line n from its start to its end.
SelectLine(n) ==
    /\ pc = "idle"
    /\ n \in 0..(lineCount(value) - 1)
    /\ getLine(value, n) # <<>>
    /\ cursor' = [line |-> n, ch |-> Len(getLine(value, n))]
    /\ selection' = getLine(value, n)
    /\ UNCHANGED <<settings, env, vault, value, pc, locals, notices, uncaught,
                   invocations>>

\* The user selects the whole document; the cursor is at its end.
SelectAll ==
    /\ pc = "idle"
    /\ value # <<>>
    /\ cursor' = [line |-> lineCount(value) - 1,
                  ch |-> Len(getLine(value, lineCount(value) - 1))]
    /\ selection' = value
    /\ UNCHANGED <<settings, env, vault, value, pc, locals, notices, uncaught,
                   invocations>>

\* The toggle of the settings tab.
ToggleVaultWide ==
    /\ pc = "idle"
    /\ settings' = [settings EXCEPT !.vaultWideNoDuplicate = ~@]
    /\ UNCHANGED <<env, vault, editor, pc, locals, notices, uncaught, invocations>>

\* ------------------------------------------------------------ the callback

NoActiveFile == "No active file to determine its folder."
NoValidInput == "Select a valid text or Markdown link"
FileCreateFailure == "File already exists."

\* A command's editorCallback calls callback(editor, name) with the
\* command's own name; the invocation's locals and notices start afresh.
Invoke(cmd) ==
    /\ pc = "idle"
    /\ invocations < MaxInvocations
    /\ cmd \in commands
    /\ command' = cmd
    /\ folder' = cmd
    /\ link' = Null
    /\ existingFile' = Null
    /\ name' = Null
    /\ notices' = <<>>
    /\ uncaught' = {}
    /\ invocations' = invocations + 1
    /\ pc' = "folder"
    /\ UNCHANGED <<settings, env, vault, editor>>

\* if (folder === 'current') { ... }: the throw stands before the try block,
\* so the error leaves the callback.
ResolveFolder ==
    /\ pc = "folder"
    /\ IF folder = "current"
       THEN IF activeFile = Null
            THEN /\ uncaught' = {NoActiveFile}
                 /\ pc' = "done"
                 /\ UNCHANGED folder
            ELSE /\ folder' = IF activeFile.parent # "" THEN activeFile.parent
                              ELSE folder
                 /\ pc' = "extract"
                 /\ UNCHANGED uncaught
       ELSE /\ pc' = "extract"
            /\ UNCHANGED <<folder, uncaught>>
    /\ UNCHANGED <<settings, env, vault, editor, command, link, existingFile,
                   name, notices, invocations>>

\* extractMarkdownLink reading the cursor's line whatever the selection is.
extractFromLineOnly == findMarkdownLink(getLine(value, cursor.line))

\* extractMarkdownLink: the selection, or the cursor's line when the
\* selection is empty.
extractMarkdownLink ==
    findMarkdownLink(IF selection # <<>> THEN selection
                     ELSE getLine(value, cursor.line))

\* let link = this.extractMarkdownLink(editor); if (!link) { ... }: this
\* throw stands before the try block too.
Extract ==
    /\ pc = "extract"
    /\ LET found == extractMarkdownLink
           selectedText == trim(selection)
       IN  IF found # Null
           THEN /\ link' = found
                /\ pc' = "find"
                /\ UNCHANGED uncaught
           ELSE IF selectedText = <<>>
           THEN /\ uncaught' = {NoValidInput}
                /\ pc' = "done"
                /\ UNCHANGED link
           ELSE /\ link' = [fullMatch |-> selectedText, alias |-> selectedText,
                            url |-> <<>>]
                /\ pc' = "find"
                /\ UNCHANGED uncaught
    /\ UNCHANGED <<settings, env, vault, editor, command, folder, existingFile,
                   name, notices, invocations>>

\* findExistingFile with the filter's folder test dropped: every folder is
\* searched whatever the setting.
MatchesEveryFolder(url, dir) ==
    {file \in vault :
        /\ file.frontmatter # Null
        /\ "url" \in DOMAIN file.frontmatter
        /\ file.frontmatter.url = url}

\* findExistingFile with the filter's folder test inverted.
MatchesOtherFolders(url, dir) ==
    {file \in vault :
        /\ settings.vaultWideNoDuplicate \/ file.folder # dir
        /\ file.frontmatter # Null
        /\ "url" \in DOMAIN file.frontmatter
        /\ file.frontmatter.url = url}

\* The files findExistingFile's filter keeps and its find accepts.
Matches(url, dir) ==
    {file \in vault :
        /\ settings.vaultWideNoDuplicate \/ file.folder = dir
        /\ file.frontmatter # Null
        /\ "url" \in DOMAIN file.frontmatter
        /\ file.frontmatter.url = url}

\* const existingFile = this.findExistingFile(link.url, folder): the first
\* match in the order getMarkdownFiles yields, which is any order.
Find ==
    /\ pc = "find"
    /\ IF Matches(link.url, folder) = {}
       THEN /\ existingFile' = Null
            /\ name' = Null
            /\ pc' = "create"
       ELSE \E file \in Matches(link.url, folder) :
                /\ existingFile' = [name |-> file.basename, folder |-> file.folder]
                /\ name' = file.basename
                /\ pc' = "replace"
    /\ UNCHANGED <<settings, env, vault, editor, command, folder, link, notices,
                   uncaught, invocations>>

generateNote(l) ==
    [name |-> generateName(l, settings.nameStrategy, today),
     content |-> generateContent(l, settings.template)]

\* What the metadata cache holds for a note of generateContent's text: the
\* url key is there only when the url is not empty.
FrontmatterOf(l) ==
    IF l.url # <<>> THEN [url |-> l.url, aliases |-> <<l.alias>>]
    ELSE [aliases |-> <<l.alias>>]

Occupied(dir, basename) ==
    \E file \in vault : file.folder = dir /\ file.basename = basename

\* await this.createFile(name, note.content, folder), the vault accepting.
CreateFile ==
    /\ pc = "create"
    /\ LET note == generateNote(link)
       IN  /\ ~Occupied(folder, note.name)
           /\ name' = note.name
           /\ vault' = vault \cup
                  {Note(folder, note.name, FrontmatterOf(link), note.content)}
    /\ pc' = "replace"
    /\ UNCHANGED <<settings, env, editor, command, folder, link, existingFile,
                   notices, uncaught, invocations>>

\* A createFile whose rejection is shown and then carried on from, as if
\* the rewrite stood after the try block.
CreateFileFailsAndGoesOn ==
    /\ pc = "create"
    /\ name' = generateNote(link).name
    /\ notices' = Append(notices, <<"Pagurl error", FileCreateFailure>>)
    /\ pc' = "replace"
    /\ UNCHANGED <<settings, env, vault, editor, command, folder, link,
                   existingFile, uncaught, invocations>>

\* await this.createFile(...), the vault rejecting (the path is taken, or
\* the storage refuses): the catch block shows the error.
CreateFileFails ==
    /\ pc = "create"
    /\ name' = generateNote(link).name
    /\ notices' = Append(notices, <<"Pagurl error", FileCreateFailure>>)
    /\ pc' = "done"
    /\ UNCHANGED <<settings, env, vault, editor, command, folder, link,
                   existingFile, uncaught, invocations>>

\* replaceMarkdownLink(editor, originalMatch, name, alias): setValue drops
\* the selection, setCursor puts the cursor back.
replaceMarkdownLink(originalMatch, target, alias) ==
    /\ value' = StringReplace(value, originalMatch, newLink(target, alias))
    /\ selection' = <<>>
    /\ cursor' = cursor

\* if (name) { replaceMarkdownLink; new Notice }: an empty name is falsy.
Replace ==
    /\ pc = "replace"
    /\ IF name # <<>>
       THEN /\ replaceMarkdownLink(link.fullMatch, name, link.alias)
            /\ notices' = Append(notices,
                   <<"Pagurl", link.url,
                     IF existingFile # Null THEN "-->" ELSE "==>",
                     IF existingFile # Null /\ existingFile.folder # ""
                     THEN existingFile.folder ELSE folder,
                     name>>)
       ELSE UNCHANGED <<editor, notices>>
    /\ pc' = "done"
    /\ UNCHANGED <<settings, env, vault, locals, uncaught, invocations>>

\* The callback's promise settles and its frame is gone.
Return ==
    /\ pc = "done"
    /\ pc' = "idle"
    /\ command' = Null
    /\ folder' = Null
    /\ link' = Null
    /\ existingFile' = Null
    /\ name' = Null
    /\ notices' = <<>>
    /\ uncaught' = {}
    /\ UNCHANGED <<settings, env, vault, editor, invocations>>

Next ==
    \/ \E n \in 0..2 : PlaceCaret(n)
    \/ \E n \in 0..2 : SelectLine(n)
    \/ SelectAll
    \/ ToggleVaultWide
    \/ \E cmd \in {"F", "G", "current"} : Invoke(cmd)
    \/ ResolveFolder
    \/ Extract
    \/ Find
    \/ CreateFile
    \/ CreateFileFails
    \/ Replace
    \/ Return

Spec == Init /\ [][Next]_vars

\* One invocation from every input.
NextOne ==
    \/ \E n \in 0..2 : PlaceCaret(n)
    \/ \E n \in 0..2 : SelectLine(n)
    \/ SelectAll
    \/ ToggleVaultWide
    \/ \E cmd \in {"F", "G", "current"} : invocations = 0 /\ Invoke(cmd)
    \/ ResolveFolder
    \/ Extract
    \/ Find
    \/ CreateFile
    \/ CreateFileFails
    \/ Replace
    \/ Return

SpecOne == InitOne /\ [][NextOne]_vars

\* ------------------------------------------------------------------ claims

\* The invocation has ended in a failure: an error left the callback, or the
\* callback showed an error.
Failed ==
    /\ pc = "done"
    /\ \/ uncaught # {}
       \/ \E i \in 1..Len(notices) : notices[i][1] = "Pagurl error"

\* C1: every failure of an invocation (no valid input, no active file for the
\* current command, a file the vault rejects) is caught inside the callback
\* and shown as exactly one notice that carries the error's message; no
\* error leaves the callback.
C1_EveryFailureIsOneNotice ==
    Failed =>
        /\ uncaught = {}
        /\ Len(notices) = 1
        /\ notices[1][1] = "Pagurl error"
        /\ notices[1][2] \in {NoActiveFile, NoValidInput, FileCreateFailure}

\* C2: when the extracted link has an empty url, the invocation never
\* resolves to an existing note, whatever the vault holds and whatever the
\* duplicate scope is: it goes on to create a note.
C2_EmptyUrlNeverResolves ==
    (pc \in {"create", "replace", "done"} /\ link # Null /\ link.url = <<>>)
        => existingFile = Null

\* The text with the first occurrence of pattern replaced by the characters
\* of repl, taken as they are.
LiteralReplaceFirst(text, pattern, repl) ==
    LET at == IndexOf(text, pattern)
    IN  IF at = 0 THEN text
        ELSE SubSeq(text, 1, at - 1) \o repl
             \o SubSeq(text, at + Len(pattern), Len(text))

\* [[N|A]], and [[N|N]] when A is empty.
WikiLink(n, a) ==
    <<"[", "[">> \o n \o <<"|">> \o (IF Len(a) = 0 THEN n ELSE a) \o <<"]", "]">>

\* C4: the rewrite of a successful invocation with name N and alias A puts
\* exactly [[N|A]] in place of the first occurrence of fullMatch, changes no
\* other character and leaves the cursor where it was, for every alias and
\* name, those that hold a $ included.
C4_ReplacementIsLiteral ==
    [][(pc = "replace" /\ name # <<>>) =>
          /\ value' = LiteralReplaceFirst(value, link.fullMatch,
                                          WikiLink(name, link.alias))
          /\ cursor' = cursor]_vars

\* The template with every {{alias}} and every {{url}} replaced, in one pass
\* from left to right, by the characters of the alias and of the url.
RECURSIVE LiteralFill(_, _, _, _)
LiteralFill(template, alias, url, i) ==
    IF i > Len(template) THEN <<>>
    ELSE IF OccursAt(template, AliasToken, i)
    THEN alias \o LiteralFill(template, alias, url, i + Len(AliasToken))
    ELSE IF OccursAt(template, UrlToken, i)
    THEN url \o LiteralFill(template, alias, url, i + Len(UrlToken))
    ELSE <<template[i]>> \o LiteralFill(template, alias, url, i + 1)

\* The front-matter block: ---, the url line when there is a url, the
\* aliases list with its one entry, ---.
FrontMatterBlock(alias, url) ==
    <<"-", "-", "-", "\n">>
    \o (IF Len(url) > 0
        THEN <<"u", "r", "l", ":", " ", "\"">> \o url \o <<"\"", "\n">>
        ELSE <<>>)
    \o <<"a", "l", "i", "a", "s", "e", "s", ":", "\n", " ", " ", "-", " ">>
    \o alias \o <<"\n", "-", "-", "-", "\n">>

\* The note the invocation has just created.
CreatedNotes ==
    IF pc = "replace" /\ existingFile = Null
    THEN {file \in vault : file.folder = folder /\ file.basename = name}
    ELSE {}

\* C5: the text of a created note is the front-matter block followed by the
\* template with every {{alias}} and {{url}} replaced by the alias and the
\* url as they are, an alias that holds {{url}} or a $ sequence included.
C5_ContentIsLiteralFill ==
    \A file \in CreatedNotes :
        file.content = FrontMatterBlock(link.alias, link.url)
                       \o LiteralFill(settings.template, link.alias, link.url, 1)

\* The callback has its target folder: it is past the first statement.
Targeted == pc \in {"extract", "find", "create", "replace"}

ConfiguredFolders == {settings.folders[i] : i \in 1..Len(settings.folders)}

\* C8: the command of a configured folder F targets F; the current command
\* targets the parent path of the active file; without an active file the
\* current command fails with NoActiveFile before it extracts, creates or
\* rewrites anything.
C8_CommandTargetsItsFolder ==
    /\ (Targeted /\ command \in ConfiguredFolders) => folder = command
    /\ (Targeted /\ command = "current" /\ command \notin ConfiguredFolders)
          => (activeFile # Null /\ folder = activeFile.parent)
    /\ (pc = "done" /\ command = "current" /\ activeFile = Null)
          => (uncaught = {NoActiveFile} /\ link = Null /\ notices = <<>>)

\* Whether the front matter of a file holds the url u.
HasUrl(file, u) ==
    /\ file.frontmatter # Null
    /\ "url" \in DOMAIN file.frontmatter
    /\ file.frontmatter.url = u

\* C3: with vaultWideNoDuplicate off, an invocation on url U that targets
\* folder F resolves to an existing note exactly when a note whose parent is
\* F has the front-matter url U, compared case-sensitively, and otherwise
\* goes on to create a file, a note with U in another folder notwithstanding;
\* with the setting on, a note with U anywhere is resolved to. An invocation
\* that resolved to a note creates no file.
C3_DuplicateScope ==
    [][/\ pc = "find" =>
            LET inFolder == {f \in vault : f.folder = folder /\ HasUrl(f, link.url)}
                anywhere == {f \in vault : HasUrl(f, link.url)}
                scope == IF settings.vaultWideNoDuplicate THEN anywhere
                         ELSE inFolder
            IN  /\ ~settings.vaultWideNoDuplicate
                      => ((existingFile' # Null) <=> (inFolder # {}))
                /\ settings.vaultWideNoDuplicate /\ anywhere # {}
                      => existingFile' # Null
                /\ existingFile' = Null => pc' = "create"
                /\ existingFile' # Null =>
                      /\ pc' = "replace"
                      /\ \E f \in scope :
                            /\ existingFile' = [name |-> f.basename,
                                                folder |-> f.folder]
                            /\ name' = f.basename
       /\ existingFile # Null => vault' = vault]_vars

\* C3's case: the setting is off, a note of another folder holds the link's
\* url, and the invocation has gone on to create a file in its own folder.
C3_Witness ==
    /\ pc = "replace"
    /\ existingFile = Null
    /\ ~settings.vaultWideNoDuplicate
    /\ link.url # <<>>
    /\ \E f \in vault : f.folder # folder /\ HasUrl(f, link.url)
    /\ \E f \in vault : f.folder = folder /\ f.basename = name
                        /\ HasUrl(f, link.url)

\* The characters the claim lists.
ListedChars == {"/", "\\", "#", "%", "&", "{", "}", "|", "<", ">", "*", "?",
                "$", "!", "'", "\"", ":", "@"}

\* n is a with the listed characters, and only them, replaced.
IsSanitized(n, a) ==
    /\ Len(n) = Len(a)
    /\ \A i \in 1..Len(a) :
          /\ n[i] \notin ListedChars
          /\ n[i] # a[i] => a[i] \in ListedChars

\* The invocation has generated a name for a note of its own.
Named ==
    /\ pc \in {"replace", "done"}
    /\ link # Null
    /\ existingFile = Null

\* C6: the generated name is the sanitized alias when the url is empty,
\* whatever the strategy; with a url, under domain-date it is
\* <hostname>-<date> when the url parses and the sanitized alias when it
\* does not; under title it is the sanitized alias. The sanitized alias holds
\* none of the listed characters and differs from the alias only where the
\* alias held one.
C6_NamePriority ==
    Named =>
        IF link.url = <<>> THEN IsSanitized(name, link.alias)
        ELSE IF settings.nameStrategy = "domain-date"
        THEN IF URLParses(link.url)
             THEN name = URLHost(link.url) \o <<"-">> \o today
             ELSE IsSanitized(name, link.alias)
        ELSE IsSanitized(name, link.alias)

\* C6's case: under domain-date, a url that does not parse gave the
\* sanitized alias as the name.
C6_Witness ==
    /\ Named
    /\ settings.nameStrategy = "domain-date"
    /\ link.url # <<>>
    /\ ~URLParses(link.url)
    /\ name = <<"a">>

\* C7: the link is searched in the selection when there is one and in the
\* cursor's line only when there is none. Without a match, a selection that
\* is not blank becomes the link (fullMatch = alias = the trimmed selection,
\* url empty), and a blank or empty one fails with NoValidInput, no file
\* created and the document as it was. fullMatch is always a verbatim part
\* of the text searched.
C7_ExtractionAndFallback ==
    [][/\ pc = "extract" =>
            LET text == IF Len(selection) > 0 THEN selection
                        ELSE getLine(value, cursor.line)
                m == findMarkdownLink(text)
                trimmed == trim(selection)
            IN  /\ m # Null =>
                      /\ pc' = "find"
                      /\ link' = m
                      /\ IndexOf(text, link'.fullMatch) # 0
                /\ (m = Null /\ Len(trimmed) > 0) =>
                      /\ pc' = "find"
                      /\ link' = [fullMatch |-> trimmed, alias |-> trimmed,
                                  url |-> <<>>]
                      /\ IndexOf(text, link'.fullMatch) # 0
                /\ (m = Null /\ Len(trimmed) = 0) =>
                      /\ pc' = "done"
                      /\ uncaught' = {NoValidInput}
                      /\ link' = Null
                      /\ vault' = vault
                      /\ UNCHANGED editor
       /\ pc = "done" => (vault' = vault /\ UNCHANGED editor)]_vars

\* C7's case: a selection that spans two lines, each with a link, gave the
\* selection's first link although the cursor's line holds the other.
C7_Witness ==
    /\ pc = "find"
    /\ Len(selection) > 0
    /\ link.url # <<>>
    /\ findMarkdownLink(getLine(value, cursor.line)) # Null
    /\ findMarkdownLink(getLine(value, cursor.line)) # link

\* No folder holds two notes with the same url, the empty one aside.
NoFolderSharesUrl ==
    \A f, g \in vault :
        (f # g /\ f.folder = g.folder /\ f.frontmatter # Null
               /\ "url" \in DOMAIN f.frontmatter /\ f.frontmatter.url # <<>>)
            => ~HasUrl(g, f.frontmatter.url)

C10_RewriteAfterResolution ==
    [][/\ (pc # "idle" /\ ~UNCHANGED editor) => pc = "replace"
       /\ (pc' = "replace" /\ pc # "replace") =>
             \/ pc = "find" /\ existingFile' # Null /\ vault' = vault
             \/ /\ pc = "create"
                /\ \E g \in vault' \ vault :
                      g.folder = folder /\ g.basename = name'
       /\ (pc = "create" /\ vault' = vault) =>
             /\ pc' = "done"
             /\ UNCHANGED editor
             /\ Len(notices') = 1
             /\ notices'[1][1] = "Pagurl error"
             /\ uncaught' = {}
       /\ pc = "done" => (vault' = vault /\ UNCHANGED editor)]_vars

\* C10's case: the vault rejected the file because its path is taken, and
\* the invocation ended with the one error notice.
C10_Witness ==
    /\ pc = "done"
    /\ link # Null
    /\ existingFile = Null
    /\ Occupied(folder, name)
    /\ notices = <<<<"Pagurl error", FileCreateFailure>>>>

====
